---- MODULE Spec2Model ----
(***************************************************************************)
(* Turn orchestration engine of ragops_agent_ce (agent/agent.py):          *)
(* LLMAgent.__init__, the tool registry, the argument/result codec, the    *)
(* blocking turn (respond) and the streaming turn (respond_stream).        *)
(* The provider, the tool handlers and the remote tool sources are the     *)
(* environment: every call to them is a nondeterministic choice among the  *)
(* outcomes listed below (a value or a raised exception).                  *)
(***************************************************************************)
EXTENDS Integers, Sequences, FiniteSets, TLC

VARIABLES
    local_tools,        \* self.local_tools: sequence of AgentTool
    mcp_tools,          \* self.mcp_tools: insertion-ordered dict, as a sequence of entries
    max_iterations,     \* self.max_iterations
    supports_tools,     \* provider.supports_tools()
    supports_streaming, \* provider.supports_streaming()
    messages,           \* the caller's message list, mutated in place
    initial,            \* the message list as it was before the call
    mode,               \* which entry point the caller used: "none", "respond", "stream"
    pc,                 \* position of the turn
    it,                 \* number of iterations of the for loop started so far
    resp,               \* the local `resp` of respond / `chunk` of respond_stream
    retry_resp,         \* the local `retry_resp` of respond
    idx,                \* position of `tc` in the loop over the tool calls
    args,               \* the local `args` of respond_stream (decoded arguments of tc)
    result,             \* the value respond returned
    exc,                \* the exception that left the turn, and where it was raised
    events,             \* the StreamEvents handed to the consumer so far
    prov_log,           \* every call made to the provider, with what it was given
    call_log,           \* every tool dispatch: target, name, arguments, outcome
    n_tc,               \* tool calls the provider has returned so far in the turn
    n_chunks,           \* chunks the provider has streamed so far in the turn
    chunk_log,          \* every chunk taken from a provider stream, and from which stream
    injected,           \* the arguments LLMAgent was constructed with: tools, mcp_clients
    ret                 \* what a helper called on its own returned

vars == <<local_tools, mcp_tools, max_iterations, supports_tools, supports_streaming,
          messages, initial, mode, pc, it, resp, retry_resp, idx, args, result, exc,
          events, prov_log, call_log, n_tc, n_chunks, chunk_log, injected, ret>>

-----------------------------------------------------------------------------
(* Bounds of the model.                                                    *)

MaxIter == 2        \* max_iterations ranges over 0..MaxIter
MaxToolCalls == 2   \* tool calls the provider returns in one turn, over all responses
MaxChunks == 2      \* chunks the provider streams in one turn, over all streams

-----------------------------------------------------------------------------
(* Python values.  None is a sentinel string that no content equals.  A    *)
(* dict is a set of <<key, value>> pairs.  A value of mixed type (raw      *)
(* arguments, decoded arguments, tool results) is a record of one shape.   *)

None == "<None>"

PyDict(m) == [kind |-> "dict", str |-> "", map |-> m]
PyStr(s)  == [kind |-> "str", str |-> s, map |-> {}]
PyNone    == [kind |-> "none", str |-> "", map |-> {}]
\* a JSON array / number / literal, kept by its text
PyOther(s) == [kind |-> "other", str |-> s, map |-> {}]
\* an object json.dumps rejects (TypeError), kept by its str()
PyObject(s) == [kind |-> "object", str |-> s, map |-> {}]
\* bytes and bytearray, kept by the text they hold (UTF-8)
PyBytes(s) == [kind |-> "bytes", str |-> s, map |-> {}]
PyByteArray(s) == [kind |-> "bytearray", str |-> s, map |-> {}]
\* the kinds json.loads decodes as a text
TextKinds == {"str", "bytes", "bytearray"}

EmptyDict == PyDict({})

\* Python truthiness of an Optional[str] (None and "" are falsy)
Truthy(s) == s # None /\ s # ""

-----------------------------------------------------------------------------
(* json.loads and json.dumps.  Texts cannot be taken apart character by    *)
(* character, so both are given on the texts and values listed here and    *)
(* have no value elsewhere.  The values of a dict are Python values.       *)

\* {"x": 5}, {"x": "5"}, {"key": "value"}, {"result": 42}
ArgsX5 == {<<"x", PyOther("5")>>}
ArgsXStr == {<<"x", PyStr("5")>>}
KeyValue == {<<"key", PyStr("value")>>}
ResultMap == {<<"result", PyOther("42")>>}

\* texts json.loads rejects (JSONDecodeError)
InvalidJson == {"", "not valid json", "{", "{'x': 5}", "{\"x\": }", "undefined"}

\* json.loads(s), s a str: [ok |-> TRUE, val |-> value] or [ok |-> FALSE] on
\* JSONDecodeError
JsonLoads(s) ==
    CASE s = "{}"                       -> [ok |-> TRUE, val |-> PyDict({})]
      [] s = "{\"x\": 5}"               -> [ok |-> TRUE, val |-> PyDict(ArgsX5)]
      [] s = "{\"x\": \"5\"}"           -> [ok |-> TRUE, val |-> PyDict(ArgsXStr)]
      [] s = "{\"key\": \"value\"}"     -> [ok |-> TRUE, val |-> PyDict(KeyValue)]
      [] s = "{\"result\": 42}"         -> [ok |-> TRUE, val |-> PyDict(ResultMap)]
      [] s \in {"[1]", "[]", "5", "0", "true", "false"}
                                        -> [ok |-> TRUE, val |-> PyOther(s)]
      [] s = "null"                     -> [ok |-> TRUE, val |-> PyNone]
      [] s = "\"text\""                 -> [ok |-> TRUE, val |-> PyStr("text")]
      [] s \in InvalidJson              -> [ok |-> FALSE, val |-> PyNone]

\* strings with no character that JSON escapes
PlainStrings == {"", "ok", "5", "42", "x", "key", "value", "result", "text", "fail", "hi"}

\* the JSON text of a str
JsonString(s) ==
    CASE s \in PlainStrings -> "\"" \o s \o "\""
      [] s = "a\"b"         -> "\"a\\\"b\""

\* json.dumps raises TypeError on v
RECURSIVE Unserializable(_)
Unserializable(v) ==
    \/ v.kind \in {"object", "bytes", "bytearray"}
    \/ v.kind = "dict" /\ \E e \in v.map : Unserializable(e[2])

\* the text json.dumps gives for a value it accepts (a dict of several keys is
\* written in insertion order, which a set of pairs does not keep: no value)
RECURSIVE JsonText(_)
JsonText(v) ==
    CASE v.kind = "none"  -> "null"
      [] v.kind = "other" -> v.str
      [] v.kind = "str"   -> JsonString(v.str)
      [] v.kind = "dict" /\ v.map = {} -> "{}"
      [] v.kind = "dict" /\ Cardinality(v.map) = 1 ->
            LET e == CHOOSE e \in v.map : TRUE
            IN "{" \o JsonString(e[1]) \o ": " \o JsonText(e[2]) \o "}"

\* json.dumps(v): [ok |-> TRUE, str |-> text] or [ok |-> FALSE] on TypeError
JsonDumps(v) ==
    IF Unserializable(v) THEN [ok |-> FALSE, str |-> ""]
    ELSE [ok |-> TRUE, str |-> JsonText(v)]

-----------------------------------------------------------------------------
(* Messages, tool calls, events.                                           *)

\* ToolCall: tc.id, tc.function.name, tc.function.arguments
ToolCall(id, name, arguments) == [id |-> id, name |-> name, arguments |-> arguments]

\* Message; tool_calls = <<>> stands for tool_calls=None
Message(role, content, name, tool_call_id, tool_calls) ==
    [role |-> role, content |-> content, name |-> name,
     tool_call_id |-> tool_call_id, tool_calls |-> tool_calls]

UserMessage(text) == Message("user", text, None, None, <<>>)

\* StreamEvent
StreamEvent(type, content, tool_name, tool_args, error) ==
    [type |-> type, content |-> content, tool_name |-> tool_name,
     tool_args |-> tool_args, error |-> error]

\* the value the fields `resp`, `retry_resp` hold before any response
NoResp == [content |-> None, tool_calls |-> <<>>]

-----------------------------------------------------------------------------
(* LLMAgent.__init__: the registry.                                        *)

\* AgentTool (the handler is the tool itself; parameters: the JSON schema, by name)
AgentTool(name, description, parameters) ==
    [name |-> name, description |-> description, parameters |-> parameters]

\* default_tools(): the thirteen built-in tools, by name
DefaultToolNames ==
    <<"time_now", "db_get", "list_directory", "read_file", "grep", "create_project",
      "get_project", "list_projects", "delete_project", "save_rag_config",
      "get_rag_config", "add_loaded_files", "list_loaded_files">>

default_tools == [i \in 1..Len(DefaultToolNames) |-> AgentTool(DefaultToolNames[i], "builtin", "schema")]

\* the `tools` argument of the constructor: a list, or None when it is left out
ToolsGiven(list) == [given |-> TRUE, list |-> list]
ToolsOmitted == [given |-> FALSE, list |-> <<>>]

\* self.local_tools = tools or default_tools()   (None and [] are both falsy)
InitLocalTools(tools) ==
    IF tools.given /\ tools.list # <<>> THEN tools.list ELSE default_tools

\* a faulty registration: a name already present is left as it is
DictSet_KeepFirst(d, key, val) ==
    IF \E i \in 1..Len(d) : d[i].key = key THEN d
    ELSE Append(d, [key |-> key, val |-> val])

\* self.mcp_tools[tool_name] = (t, client): a dict keeps a key's first position
\* and its last value
DictSet(d, key, val) ==
    IF \E i \in 1..Len(d) : d[i].key = key
    THEN [i \in 1..Len(d) |-> IF d[i].key = key THEN [key |-> key, val |-> val] ELSE d[i]]
    ELSE Append(d, [key |-> key, val |-> val])

\* for t in discovered: self.mcp_tools[t["name"]] = (t, client)
RECURSIVE AddDiscovered(_, _, _)
AddDiscovered(d, discovered, client) ==
    IF discovered = <<>> THEN d
    ELSE AddDiscovered(DictSet(d, Head(discovered).name, [meta |-> Head(discovered), client |-> client]),
                       Tail(discovered), client)

\* a faulty discovery: the first source that fails ends it
RECURSIVE InitMcpTools_StopAtFailure(_, _)
InitMcpTools_StopAtFailure(d, clients) ==
    IF clients = <<>> THEN d
    ELSE LET c == Head(clients) IN
         IF c.raises THEN d
         ELSE InitMcpTools_StopAtFailure(AddDiscovered(d, c.tools, c.id), Tail(clients))

\* for client in self.mcp_clients: try list_tools() ... except Exception: pass
\* a client is [id, raises, tools]: list_tools() raises or returns tools
RECURSIVE InitMcpTools(_, _)
InitMcpTools(d, clients) ==
    IF clients = <<>> THEN d
    ELSE LET c == Head(clients) IN
         InitMcpTools(IF c.raises THEN d ELSE AddDiscovered(d, c.tools, c.id), Tail(clients))

\* _tool_specs(): local specs, then the remote ones in dict order
ToolSpecs(locals, mcps) ==
    [i \in 1..Len(locals) |-> [name |-> locals[i].name, description |-> locals[i].description,
                                 parameters |-> locals[i].parameters]]
    \o [i \in 1..Len(mcps) |-> [name |-> mcps[i].val.meta.name,
                                 description |-> mcps[i].val.meta.description,
                                 parameters |-> mcps[i].val.meta.parameters]]

\* a faulty lookup: the discovered tools are looked at before the local ones
FindTool_RemoteFirst(locals, mcps, name) ==
    IF \E i \in 1..Len(mcps) : mcps[i].key = name
    THEN LET i == CHOOSE j \in 1..Len(mcps) : mcps[j].key = name
         IN [target |-> "mcp", pos |-> i, name |-> mcps[i].val.meta.name,
             client |-> mcps[i].val.client]
    ELSE IF \E i \in 1..Len(locals) : locals[i].name = name
    THEN LET i == CHOOSE j \in 1..Len(locals) : locals[j].name = name
         IN [target |-> "local", pos |-> i, name |-> locals[i].name, client |-> None]
    ELSE [target |-> "none", pos |-> 0, name |-> name, client |-> None]

\* _find_tool(name): (local_tool, None), (None, mcp entry) or (None, None)
FindTool(locals, mcps, name) ==
    IF \E i \in 1..Len(locals) : locals[i].name = name
    THEN LET i == CHOOSE j \in 1..Len(locals) :
                     locals[j].name = name /\ \A k \in 1..(j-1) : locals[k].name # name
         IN [target |-> "local", pos |-> i, name |-> locals[i].name, client |-> None]
    ELSE IF \E i \in 1..Len(mcps) : mcps[i].key = name
    THEN LET i == CHOOSE j \in 1..Len(mcps) : mcps[j].key = name
         IN [target |-> "mcp", pos |-> i, name |-> mcps[i].val.meta.name,
             client |-> mcps[i].val.client]
    ELSE [target |-> "none", pos |-> 0, name |-> name, client |-> None]

-----------------------------------------------------------------------------
(* The argument / result codec.                                            *)

\* the arrays, numbers and literals, and the objects, that Python takes as
\* false and as true, by their text and by their str()
FalsyJson == {"[]", "0", "-0", "0.0", "-0.0", "false"}
TruthyJson == {"[1]", "5", "42", "1", "-1", "0.5", "true"}
FalsyObjects == {"set()", "frozenset()"}
TruthyObjects == {"<obj>", "{1}"}

\* bool(v) of a payload: None, "", b"", {}, an empty list, a zero and False are
\* falsy; given on the values listed above, no value elsewhere
PyTruthy(v) ==
    CASE v.kind = "none"   -> FALSE
      [] v.kind = "str"    -> v.str # ""
      [] v.kind = "bytes"  -> v.str # ""
      [] v.kind = "bytearray" -> v.str # ""
      [] v.kind = "dict"   -> v.map # {}
      [] v.kind = "other" /\ v.str \in FalsyJson      -> FALSE
      [] v.kind = "other" /\ v.str \in TruthyJson     -> TRUE
      [] v.kind = "object" /\ v.str \in FalsyObjects  -> FALSE
      [] v.kind = "object" /\ v.str \in TruthyObjects -> TRUE

\* json.loads(raw or "{}") inside try / except Exception: json.loads takes a
\* str, bytes or bytearray and raises TypeError on anything else (a list, a
\* number, an object)
LoadsOrRaise(raw) ==
    IF ~PyTruthy(raw) THEN JsonLoads("{}")
    ELSE IF raw.kind \in TextKinds THEN JsonLoads(raw.str)
    ELSE [ok |-> FALSE, val |-> PyNone]

\* a faulty decode: a payload that does not parse is passed on as it is
ParseToolArgs_NoFallback(tc) ==
    LET raw == tc.arguments IN
    IF raw.kind = "dict" THEN raw
    ELSE LET r == LoadsOrRaise(raw) IN IF r.ok THEN r.val ELSE raw

\* _parse_tool_args(tc)
ParseToolArgs(tc) ==
    LET raw == tc.arguments IN
    IF raw.kind = "dict" THEN raw
    ELSE LET r == LoadsOrRaise(raw) IN IF r.ok THEN r.val ELSE EmptyDict

\* a faulty serialization: a value json.dumps rejects is handed on with no text
SerializeToolResult_NoFallback(r) ==
    IF r.kind = "str" THEN r.str
    ELSE LET d == JsonDumps(r) IN IF d.ok THEN d.str ELSE None

\* str(result) of an object, and of bytes or a bytearray holding plain text
\* (a dict holding one has no str() here)
PyStrOf(r) ==
    CASE r.kind = "object" -> r.str
      [] r.kind = "bytes" /\ r.str \in PlainStrings -> "b'" \o r.str \o "'"
      [] r.kind = "bytearray" /\ r.str \in PlainStrings -> "bytearray(b'" \o r.str \o "')"

\* _serialize_tool_result(result)
SerializeToolResult(r) ==
    IF r.kind = "str" THEN r.str
    ELSE LET d == JsonDumps(r) IN IF d.ok THEN d.str ELSE PyStrOf(r)

-----------------------------------------------------------------------------
(* Pieces of the turn that do not depend on the environment.               *)

\* a faulty declaration: the specs are passed whatever the provider supports
DeclaredTools_Always(st, locals, mcps) == [declared |-> TRUE, specs |-> ToolSpecs(locals, mcps)]

\* tools = self._tool_specs() if self.provider.supports_tools() else None
DeclaredTools(st, locals, mcps) ==
    IF st THEN [declared |-> TRUE, specs |-> ToolSpecs(locals, mcps)]
    ELSE [declared |-> FALSE, specs |-> <<>>]

\* a provider call made without the tools argument (the recovery retry)
NoTools == [declared |-> FALSE, specs |-> <<>>]

\* a faulty test: the provider's capability is not looked at
ShouldExecuteTools_IgnoreSupport(st, r) == r.tool_calls # <<>>

\* _should_execute_tools(resp): bool(supports_tools() and resp.tool_calls)
ShouldExecuteTools(st, r) == st /\ r.tool_calls # <<>>

\* a faulty append: the message is put in front of the list
AppendMessage_Prepend(msgs, m) == <<m>> \o msgs

\* messages.append(m)
AppendMessage(msgs, m) == Append(msgs, m)

\* a faulty assistant turn: it carries an empty text instead of no content
SyntheticAssistant_EmptyText(tool_calls) == Message("assistant", "", None, None, tool_calls)

\* _append_synthetic_assistant_turn(messages, tool_calls)
SyntheticAssistant(tool_calls) == Message("assistant", None, None, None, tool_calls)

\* a faulty tool message: the tool_call_id is left out
ToolMessage_NoId(tc, content) == Message("tool", content, tc.name, None, <<>>)

\* Message(role="tool", name=tc.function.name, tool_call_id=tc.id, content=...)
ToolMessage(tc, content) == Message("tool", content, tc.name, tc.id, <<>>)

\* a faulty loop bound: one iteration too many
LoopContinues_OffByOne(i, max) == i <= max

\* for _ in range(self.max_iterations): is there an iteration after the i-th
LoopContinues(i, max) == i < max

\* the outcome of a handler or call_tool that was not invoked
NotInvoked == [kind |-> "none", value |-> PyNone, exc |-> None, msg |-> ""]

\* a faulty execute: a raised exception is turned into an error string
ExecuteToolCall_Swallow(locals, mcps, tc, a, out) ==
    LET f == FindTool(locals, mcps, tc.name) IN
    IF f.target = "none"
    THEN [invoked |-> FALSE, target |-> "none", tpos |-> 0, name |-> tc.name, client |-> None,
          raised |-> FALSE, str |-> "", exc |-> None, msg |-> ""]
    ELSE [invoked |-> TRUE, target |-> f.target, tpos |-> f.pos, name |-> f.name, client |-> f.client,
          raised |-> FALSE,
          str |-> IF out.kind = "return" THEN SerializeToolResult(out.value)
                  ELSE "Error: " \o out.msg,
          exc |-> None, msg |-> ""]

\* a faulty execute: an unknown tool gives an error text instead of ""
ExecuteToolCall_NotFoundError(locals, mcps, tc, a, out) ==
    LET f == FindTool(locals, mcps, tc.name) IN
    IF f.target = "none"
    THEN [invoked |-> FALSE, target |-> "none", tpos |-> 0, name |-> tc.name, client |-> None,
          raised |-> FALSE, str |-> "Error: Tool not found", exc |-> None, msg |-> ""]
    ELSE IF out.kind = "return"
    THEN [invoked |-> TRUE, target |-> f.target, tpos |-> f.pos, name |-> f.name, client |-> f.client,
          raised |-> FALSE, str |-> SerializeToolResult(out.value), exc |-> None, msg |-> ""]
    ELSE [invoked |-> TRUE, target |-> f.target, tpos |-> f.pos, name |-> f.name, client |-> f.client,
          raised |-> TRUE, str |-> "", exc |-> out.exc, msg |-> out.msg]

\* _execute_tool_call(tc, args), given the outcome `out` of the handler or of
\* call_tool: whether and what it invoked, and the string it returns or the
\* exception it lets through
ExecuteToolCall(locals, mcps, tc, a, out) ==
    LET f == FindTool(locals, mcps, tc.name) IN
    IF f.target = "none"
    THEN [invoked |-> FALSE, target |-> "none", tpos |-> 0, name |-> tc.name, client |-> None,
          raised |-> FALSE, str |-> "", exc |-> None, msg |-> ""]
    ELSE IF out.kind = "return"
    THEN [invoked |-> TRUE, target |-> f.target, tpos |-> f.pos, name |-> f.name, client |-> f.client,
          raised |-> FALSE, str |-> SerializeToolResult(out.value), exc |-> None, msg |-> ""]
    ELSE [invoked |-> TRUE, target |-> f.target, tpos |-> f.pos, name |-> f.name, client |-> f.client,
          raised |-> TRUE, str |-> "", exc |-> out.exc, msg |-> out.msg]

\* the record of one handler / call_tool invocation: who was called with what, for
\* which tool call, what came back, and where its message goes in the history
\* (epos: how many events the consumer had been handed when it was made)
Invocation(r, tc, a, out, pos, epos) ==
    [target |-> r.target, tpos |-> r.tpos, name |-> r.name, client |-> r.client, args |-> a,
     outcome |-> out.kind, value |-> out.value, exc |-> out.exc, msg |-> out.msg,
     tc |-> tc, pos |-> pos, epos |-> epos]

LogInvocation(log, r, tc, a, out, pos, epos) ==
    IF r.invoked THEN Append(log, Invocation(r, tc, a, out, pos, epos)) ELSE log

\* a faulty handler clause: it catches nothing
IsException_Never(e) == FALSE

\* except Exception: KeyboardInterrupt, CancelledError and GeneratorExit derive
\* from BaseException only and pass through it
IsException(e) == e = "Exception"

\* a faulty finalize: the retry is issued whatever the content
NeedsRetry_Always(r) == TRUE

\* if not resp.content: the recovery retry is needed
NeedsRetry(r) == ~Truthy(r.content)

\* a faulty retry: its content is returned as it is, None included
FinalContent_Raw(r) == r.content

\* return retry_resp.content or ""
FinalContent(r) == IF Truthy(r.content) THEN r.content ELSE ""

-----------------------------------------------------------------------------
(* The environment: what the agent is built with, what the provider and    *)
(* the handlers may answer.                                                *)

Contents == {None, "", "X"}

\* tool calls as providers hand them over: the arguments are a JSON text (of an
\* object, of null) or a text that is no JSON
ToolCallPool ==
    { ToolCall("call_0", "loc", PyStr("not valid json")),
      ToolCall("call_1", "rem", PyStr("{\"x\": 5}")),
      ToolCall("call_0", "ghost", PyStr("null")) }

\* the lists of 0..n tool calls, no call listed twice in one response
RECURSIVE ToolCallLists(_)
ToolCallLists(n) ==
    IF n <= 0 THEN {<<>>}
    ELSE LET shorter == ToolCallLists(n - 1) IN
         shorter \cup UNION { {Append(l, tc) : tc \in {t \in ToolCallPool :
                                                         \A i \in 1..Len(l) : l[i] # t}}
                               : l \in {s \in shorter : Len(s) = n - 1} }

\* GenerateResponse / StreamChunk: content and tool_calls (<<>> for None or [])
Responses(n) ==
    [content : Contents, tool_calls : {<<>>}]
    \cup [content : {None, "X"}, tool_calls : ToolCallLists(n) \ {<<>>}]

Raises(e, m) == [kind |-> "raise", value |-> PyNone, exc |-> e, msg |-> m]
Returns(v)   == [kind |-> "return", value |-> v, exc |-> None, msg |-> ""]

HandlerOutcomes ==
    { Returns(PyStr("ok")), Returns(PyDict(ResultMap)),
      Raises("Exception", "fail"), Raises("KeyboardInterrupt", "") }

\* what a tool source's call_tool can do: the result may be a value json.dumps
\* rejects, an object or a bytearray
RemoteOutcomes ==
    { Returns(PyByteArray("ok")), Returns(PyObject("<obj>")),
      Raises("Exception", "fail"), Raises("KeyboardInterrupt", "") }

ProviderExceptions == {"Exception", "KeyboardInterrupt"}

\* the agent of this specification: one local tool, one tool source with one tool
InjectedTools == <<AgentTool("loc", "a local tool", "schema")>>
InjectedClients ==
    << [id |-> "srv", raises |-> FALSE,
        tools |-> <<[name |-> "rem", description |-> "a remote tool", parameters |-> "schema"]>>] >>

\* histories a caller can hold when a turn starts: the last message is the user's
InitialHistories ==
    { <<UserMessage("hi")>>,
      << UserMessage("hi"),
         SyntheticAssistant(<<ToolCall("call_0", "loc", PyDict(ArgsX5))>>),
         ToolMessage(ToolCall("call_0", "loc", PyDict(ArgsX5)), "ok"),
         UserMessage("again") >> }

NoExc == [type |-> None, src |-> None, msg |-> ""]

Init ==
    /\ injected = [tools |-> ToolsGiven(InjectedTools), clients |-> InjectedClients]
    /\ local_tools = InitLocalTools(injected.tools)
    /\ mcp_tools = InitMcpTools(<<>>, injected.clients)
    /\ ret = PyNone
    /\ max_iterations \in 0..MaxIter
    /\ supports_tools \in BOOLEAN
    /\ supports_streaming \in BOOLEAN
    /\ messages \in InitialHistories
    /\ initial = messages
    /\ mode = "none"
    /\ pc = "idle"
    /\ it = 0
    /\ resp = NoResp
    /\ retry_resp = NoResp
    /\ idx = 0
    /\ args = PyNone
    /\ result = None
    /\ exc = NoExc
    /\ events = <<>>
    /\ prov_log = <<>>
    /\ call_log = <<>>
    /\ n_tc = 0
    /\ n_chunks = 0
    /\ chunk_log = <<>>

agent_vars == <<local_tools, mcp_tools, max_iterations, supports_tools, supports_streaming,
                injected, ret>>

-----------------------------------------------------------------------------
(* respond (blocking turn).                                                *)

\* a faulty fallback: the event is yielded without the text respond returned
FallbackEvent_NoPayload(v) == StreamEvent("content", None, None, PyNone, None)

\* StreamEvent(type="content", content=self.respond(messages, model=model))
FallbackEvent(v) == StreamEvent("content", v, None, PyNone, None)

\* respond returns v: to its caller, or into the single content event of
\* respond_stream when the provider does not stream
ReturnFromRespond(entry, v) ==
    /\ result' = v
    /\ IF entry = "stream"
       THEN /\ events' = Append(events, FallbackEvent(v))
            /\ pc' = "y_fallback"
       ELSE /\ events' = events
            /\ pc' = "done"

\* a faulty entry: the loop body runs once even when range(max_iterations) is empty
EnterRespond_AtLeastOnce(entry) ==
    /\ it' = 1
    /\ pc' = "generate"
    /\ UNCHANGED <<result, events>>

\* entry of respond: the loop starts, or has no iteration at all
EnterRespond(entry) ==
    IF LoopContinues(0, max_iterations)
    THEN /\ it' = 1
         /\ pc' = "generate"
         /\ UNCHANGED <<result, events>>
    ELSE /\ it' = 0
         /\ ReturnFromRespond(entry, "")

Respond_Begin ==
    /\ pc = "idle"
    /\ mode' = "respond"
    /\ EnterRespond("respond")
    /\ UNCHANGED <<agent_vars, messages, initial, resp, retry_resp, idx, args, exc,
                   prov_log, call_log, n_tc, n_chunks, chunk_log>>

\* one call to the provider: the api, the tools and the history length it was given,
\* and the response (r = NoResp when it raised or, for a stream, before any chunk)
ProvEntry(api, tools, retry, r, raised) ==
    [api |-> api, tools |-> tools, retry |-> retry, nmsgs |-> Len(messages),
     content |-> r.content, tool_calls |-> r.tool_calls, raised |-> raised]

\* resp = self.provider.generate(messages, tools=tools, model=model), and the branch
Generate ==
    /\ pc = "generate"
    /\ LET tools == DeclaredTools(supports_tools, local_tools, mcp_tools) IN
       \/ \E e \in ProviderExceptions :
            /\ pc' = "raised"
            /\ exc' = [type |-> e, src |-> "provider", msg |-> ""]
            /\ prov_log' = Append(prov_log, ProvEntry("generate", tools, FALSE, NoResp, TRUE))
            /\ UNCHANGED <<messages, resp, idx, result, events, n_tc, mode>>
       \/ \E r \in Responses(MaxToolCalls - n_tc) :
            /\ resp' = r
            /\ n_tc' = n_tc + Len(r.tool_calls)
            /\ prov_log' = Append(prov_log, ProvEntry("generate", tools, FALSE, r, FALSE))
            /\ mode' = mode
            /\ exc' = exc
            /\ IF ShouldExecuteTools(supports_tools, r)
               THEN /\ messages' = AppendMessage(messages, SyntheticAssistant(r.tool_calls))
                    /\ idx' = 1
                    /\ pc' = "tool"
                    /\ UNCHANGED <<result, events>>
               ELSE /\ UNCHANGED <<messages, idx>>
                    /\ IF NeedsRetry(r)
                       THEN /\ pc' = "retry"
                            /\ UNCHANGED <<result, events>>
                       ELSE ReturnFromRespond(mode, r.content)
    /\ UNCHANGED <<agent_vars, initial, it, retry_resp, args, call_log, n_chunks, chunk_log>>

\* the outcomes the handler of tc can have: none when no handler is resolved
OutcomesFor(tc) ==
    LET target == FindTool(local_tools, mcp_tools, tc.name).target IN
    IF target = "none" THEN {NotInvoked}
    ELSE IF target = "mcp" THEN RemoteOutcomes ELSE HandlerOutcomes

\* one pass of the loop of _handle_tool_calls, and the loop's exit back into respond
\* a faulty loop: the calls are taken from the end of the list
CurrentCall_Reversed(tcs, i) == tcs[Len(tcs) + 1 - i]

\* for tc in tool_calls: the i-th call of the list
CurrentCall(tcs, i) == tcs[i]

HandleToolCall ==
    /\ pc = "tool"
    /\ LET tc == CurrentCall(resp.tool_calls, idx)
           a == ParseToolArgs(tc)
       IN \E out \in OutcomesFor(tc) :
            LET r == ExecuteToolCall(local_tools, mcp_tools, tc, a, out) IN
            /\ call_log' = LogInvocation(call_log, r, tc, a, out, Len(messages) + 1, Len(events))
            /\ IF r.raised
               THEN /\ pc' = "raised"
                    /\ exc' = [type |-> r.exc, src |-> "tool", msg |-> r.msg]
                    /\ UNCHANGED <<messages, idx, it, result, events>>
               ELSE /\ messages' = AppendMessage(messages, ToolMessage(tc, r.str))
                    /\ exc' = exc
                    /\ IF idx < Len(resp.tool_calls)
                       THEN /\ idx' = idx + 1
                            /\ UNCHANGED <<pc, it, result, events>>
                       ELSE /\ idx' = idx
                            /\ IF LoopContinues(it, max_iterations)
                               THEN /\ it' = it + 1
                                    /\ pc' = "generate"
                                    /\ UNCHANGED <<result, events>>
                               ELSE /\ it' = it
                                    /\ ReturnFromRespond(mode, "")
    /\ UNCHANGED <<agent_vars, initial, mode, resp, retry_resp, args, prov_log, n_tc, n_chunks, chunk_log>>

\* retry_resp = self.provider.generate(messages, model=model); return its content or ""
Retry ==
    /\ pc = "retry"
    /\ \/ \E e \in ProviderExceptions :
            /\ pc' = "raised"
            /\ exc' = [type |-> e, src |-> "provider", msg |-> ""]
            /\ prov_log' = Append(prov_log, ProvEntry("generate", NoTools, TRUE, NoResp, TRUE))
            /\ UNCHANGED <<retry_resp, result, events, n_tc, mode>>
       \/ \E r \in Responses(MaxToolCalls - n_tc) :
            /\ retry_resp' = r
            /\ n_tc' = n_tc + Len(r.tool_calls)
            /\ prov_log' = Append(prov_log, ProvEntry("generate", NoTools, TRUE, r, FALSE))
            /\ mode' = mode
            /\ exc' = exc
            /\ ReturnFromRespond(mode, FinalContent(r))
    /\ UNCHANGED <<agent_vars, messages, initial, it, resp, idx, args, call_log, n_chunks, chunk_log>>

-----------------------------------------------------------------------------
(* respond_stream (streaming turn).  The generator is suspended at every   *)
(* yield (pc "y_..."); the consumer resumes it or stops consuming it.      *)

\* a faulty start event: it carries the arguments as the provider sent them
StartEvent_RawArgs(tc, a) == StreamEvent("tool_call_start", None, tc.name, tc.arguments, None)

\* the tool_call_start event of the idx-th call of the chunk, with decoded arguments
StartEvent(tc, a) == StreamEvent("tool_call_start", None, tc.name, a, None)

\* the record of one chunk taken from a stream: what it carried, which provider
\* stream it came from, and how long the history and the event sequence were
ChunkEntry(c, stream, nmsgs, epos) ==
    [stream |-> stream, content |-> c.content, tool_calls |-> c.tool_calls,
     nmsgs |-> nmsgs, epos |-> epos]

\* what follows the content of a chunk: its tool calls, or the next chunk
ChunkTools(c) ==
    IF c.tool_calls # <<>> /\ supports_tools
    THEN /\ messages' = AppendMessage(messages, SyntheticAssistant(c.tool_calls))
         /\ idx' = 1
         /\ args' = ParseToolArgs(c.tool_calls[1])
         /\ events' = Append(events, StartEvent(c.tool_calls[1], ParseToolArgs(c.tool_calls[1])))
         /\ pc' = "y_start"
    ELSE /\ pc' = "s_pull"
         /\ UNCHANGED <<messages, idx, args, events>>

RespondStream_Begin ==
    /\ pc = "idle"
    /\ mode' = "stream"
    /\ IF ~supports_streaming
       THEN EnterRespond("stream")
       ELSE /\ UNCHANGED <<result, events>>
            /\ IF LoopContinues(0, max_iterations)
               THEN it' = 1 /\ pc' = "s_open"
               ELSE it' = 0 /\ pc' = "done"
    /\ UNCHANGED <<agent_vars, messages, initial, resp, retry_resp, idx, args, exc,
                   prov_log, call_log, n_tc, n_chunks, chunk_log>>

\* self.provider.generate_stream(messages, tools=tools, model=model)
OpenStream ==
    /\ pc = "s_open"
    /\ prov_log' = Append(prov_log,
          ProvEntry("generate_stream", DeclaredTools(supports_tools, local_tools, mcp_tools),
                    FALSE, NoResp, FALSE))
    /\ pc' = "s_pull"
    /\ UNCHANGED <<agent_vars, messages, initial, mode, it, resp, retry_resp, idx, args,
                   result, exc, events, call_log, n_tc, n_chunks, chunk_log>>

\* a faulty test: an empty string is yielded as content too
HasContent_NotNone(c) == c.content # None

\* if chunk.content:
HasContent(c) == Truthy(c.content)

\* for chunk in ...: the stream ends, fails, or hands over one more chunk
NextChunk ==
    /\ pc = "s_pull"
    /\ \/ /\ pc' = "done"
          /\ UNCHANGED <<messages, resp, idx, args, exc, events, n_tc, n_chunks, chunk_log>>
       \/ \E e \in ProviderExceptions :
            /\ pc' = "raised"
            /\ exc' = [type |-> e, src |-> "provider", msg |-> ""]
            /\ UNCHANGED <<messages, resp, idx, args, events, n_tc, n_chunks, chunk_log>>
       \/ /\ n_chunks < MaxChunks
          /\ \E c \in Responses(MaxToolCalls - n_tc) :
               /\ resp' = c
               /\ n_chunks' = n_chunks + 1
               /\ chunk_log' = Append(chunk_log, ChunkEntry(c, Len(prov_log), Len(messages), Len(events)))
               /\ n_tc' = n_tc + Len(c.tool_calls)
               /\ exc' = exc
               /\ IF HasContent(c)
                  THEN /\ events' = Append(events, StreamEvent("content", c.content, None, PyNone, None))
                       /\ pc' = "y_content"
                       /\ UNCHANGED <<messages, idx, args>>
                  ELSE ChunkTools(c)
    /\ UNCHANGED <<agent_vars, initial, mode, it, retry_resp, result, prov_log, call_log>>

\* the consumer asks for the event after a content event
ResumeAfterContent ==
    /\ pc = "y_content"
    /\ ChunkTools(resp)
    /\ UNCHANGED <<agent_vars, initial, mode, it, resp, retry_resp, result, exc,
                   prov_log, call_log, n_tc, n_chunks, chunk_log>>

\* the consumer asks for the event after tool_call_start: the tool runs
StreamToolCall ==
    /\ pc = "y_start"
    /\ LET tc == resp.tool_calls[idx] IN
       \E out \in OutcomesFor(tc) :
         LET r == ExecuteToolCall(local_tools, mcp_tools, tc, args, out) IN
         /\ call_log' = LogInvocation(call_log, r, tc, args, out, Len(messages) + 1, Len(events))
         /\ IF ~r.raised
            THEN /\ messages' = AppendMessage(messages, ToolMessage(tc, r.str))
                 /\ events' = Append(events, StreamEvent("tool_call_end", None, tc.name, PyNone, None))
                 /\ pc' = "y_end"
                 /\ exc' = exc
            ELSE IF IsException(r.exc)
            THEN /\ messages' = AppendMessage(messages, ToolMessage(tc, "Error: " \o r.msg))
                 /\ events' = Append(events, StreamEvent("tool_call_error", None, tc.name, PyNone, r.msg))
                 /\ pc' = "y_end"
                 /\ exc' = exc
            ELSE /\ pc' = "raised"
                 /\ exc' = [type |-> r.exc, src |-> "tool", msg |-> r.msg]
                 /\ UNCHANGED <<messages, events>>
    /\ UNCHANGED <<agent_vars, initial, mode, it, resp, retry_resp, idx, args, result,
                   prov_log, n_tc, n_chunks, chunk_log>>

\* a faulty inner loop: without the break, it goes on reading the same stream
AfterToolCalls_NoBreak(i, max) == [it |-> i, pc |-> "s_pull"]

\* after the last tool call of a chunk: break out of the loop over the chunks, and
\* the outer loop opens the next stream or has run max_iterations times
AfterToolCalls(i, max) ==
    IF LoopContinues(i, max) THEN [it |-> i + 1, pc |-> "s_open"]
                             ELSE [it |-> i, pc |-> "done"]

\* the consumer asks for the event after tool_call_end / tool_call_error:
\* the next call of the chunk, or break and the next iteration
ResumeAfterTool ==
    /\ pc = "y_end"
    /\ IF idx < Len(resp.tool_calls)
       THEN /\ idx' = idx + 1
            /\ args' = ParseToolArgs(resp.tool_calls[idx + 1])
            /\ events' = Append(events, StartEvent(resp.tool_calls[idx + 1],
                                                   ParseToolArgs(resp.tool_calls[idx + 1])))
            /\ pc' = "y_start"
            /\ it' = it
       ELSE /\ UNCHANGED <<idx, args, events>>
            /\ it' = AfterToolCalls(it, max_iterations).it
            /\ pc' = AfterToolCalls(it, max_iterations).pc
    /\ UNCHANGED <<agent_vars, messages, initial, mode, resp, retry_resp, result, exc,
                   prov_log, call_log, n_tc, n_chunks, chunk_log>>

\* the consumer asks for the event after the single event of the fallback
ResumeAfterFallback ==
    /\ pc = "y_fallback"
    /\ pc' = "done"
    /\ UNCHANGED <<agent_vars, messages, initial, mode, it, resp, retry_resp, idx, args,
                   result, exc, events, prov_log, call_log, n_tc, n_chunks, chunk_log>>

Suspended == pc \in {"y_content", "y_start", "y_end", "y_fallback"}

\* the consumer stops after an event it was handed (breaks out of its loop, or is
\* interrupted in its own code): GeneratorExit at the yield, which nothing catches
StopConsuming ==
    /\ Suspended
    /\ pc' = "closed"
    /\ exc' = [type |-> "GeneratorExit", src |-> pc, msg |-> ""]
    /\ UNCHANGED <<agent_vars, messages, initial, mode, it, resp, retry_resp, idx, args,
                   result, events, prov_log, call_log, n_tc, n_chunks, chunk_log>>

-----------------------------------------------------------------------------

Next ==
    \/ Respond_Begin
    \/ Generate
    \/ HandleToolCall
    \/ Retry
    \/ RespondStream_Begin
    \/ OpenStream
    \/ NextChunk
    \/ ResumeAfterContent
    \/ StreamToolCall
    \/ ResumeAfterTool
    \/ ResumeAfterFallback
    \/ StopConsuming

Spec == Init /\ [][Next]_vars

\* the streaming turn on its own: respond_stream on a provider that streams
InitStream == Init /\ supports_streaming

NextStream ==
    \/ RespondStream_Begin
    \/ OpenStream
    \/ NextChunk
    \/ ResumeAfterContent
    \/ StreamToolCall
    \/ ResumeAfterTool
    \/ StopConsuming

SpecStream == InitStream /\ [][NextStream]_vars

\* the turn is over: returned, raised, or abandoned by the consumer
Terminal == pc \in {"done", "raised", "closed"}

-----------------------------------------------------------------------------
(* The registry and the codec on their own: the agent is constructed with  *)
(* any of a range of tool lists and tool sources, and one helper is called *)
(* on it directly, as the unit tests do.                                   *)

MaxTools == 2       \* length of the injected tool list
MaxClients == 2     \* number of tool sources

\* two local tools of one name, and a local tool with the name of a remote one
ToolPool ==
    { AgentTool("loc", "first local", "schema A"),
      AgentTool("loc", "second local", "schema B"),
      AgentTool("rem", "local rem", "schema L") }

\* two sources that both report "rem", and one whose list_tools raises
ClientPool ==
    { [id |-> "srv1", raises |-> FALSE,
       tools |-> << [name |-> "rem", description |-> "rem of srv1", parameters |-> "schema 1"],
                    [name |-> "aux", description |-> "aux of srv1", parameters |-> "schema 1"] >>],
      [id |-> "srv2", raises |-> FALSE,
       tools |-> << [name |-> "rem", description |-> "rem of srv2", parameters |-> "schema 2"] >>],
      [id |-> "bad", raises |-> TRUE,
       tools |-> << [name |-> "rem", description |-> "rem of bad", parameters |-> "schema 3"] >>] }

\* the sequences of at most n elements of S
RECURSIVE SeqsUpTo(_, _)
SeqsUpTo(S, n) ==
    IF n <= 0 THEN {<<>>}
    ELSE LET shorter == SeqsUpTo(S, n - 1) IN
         shorter \cup {Append(l, x) : l \in {q \in shorter : Len(q) = n - 1}, x \in S}

ToolsArguments == {ToolsOmitted} \cup {ToolsGiven(l) : l \in SeqsUpTo(ToolPool, MaxTools)}
ClientsArguments == SeqsUpTo(ClientPool, MaxClients)

\* raw argument payloads: maps, JSON objects in a string, other valid JSON in a
\* string, a malformed string, the empty string, None, and what is neither a
\* map, a string nor None (a list, a number, bytes, a bytearray, an object)
RawPayloads ==
    { PyDict(ArgsX5), PyDict({}), PyStr("{\"x\": 5}"), PyStr("{\"key\": \"value\"}"),
      PyStr("{}"), PyStr("[1]"), PyStr("null"), PyStr("not valid json"),
      PyStr(""), PyNone, PyOther("[1]"), PyOther("0.0"),
      PyBytes("{\"x\": 5}"), PyByteArray("{\"x\": 5}"), PyObject("set()") }

\* what a handler or call_tool may return: a string, a map, None, a list, and
\* what json.dumps rejects (an object, bytes, a bytearray)
ResultValues ==
    { PyStr("ok"), PyDict(ResultMap), PyDict(KeyValue), PyNone, PyOther("[1]"),
      PyObject("<obj>"), PyBytes("ok"), PyByteArray("ok") }

CalledNames == {"loc", "rem", "aux", "grep", "ghost"}

UnitOutcomes(tc) ==
    IF FindTool(local_tools, mcp_tools, tc.name).target = "none"
    THEN {NotInvoked}
    ELSE {Returns(v) : v \in ResultValues} \cup {Raises("Exception", "fail")}

InitRegistry ==
    /\ injected \in [tools : ToolsArguments, clients : ClientsArguments]
    /\ local_tools = InitLocalTools(injected.tools)
    /\ mcp_tools = InitMcpTools(<<>>, injected.clients)
    /\ max_iterations = 1
    /\ supports_tools = TRUE
    /\ supports_streaming = FALSE
    /\ messages = <<UserMessage("hi")>>
    /\ initial = messages
    /\ mode = "none"
    /\ pc = "idle"
    /\ it = 0
    /\ resp = NoResp
    /\ retry_resp = NoResp
    /\ idx = 0
    /\ args = PyNone
    /\ result = None
    /\ exc = NoExc
    /\ events = <<>>
    /\ prov_log = <<>>
    /\ call_log = <<>>
    /\ n_tc = 0
    /\ n_chunks = 0
    /\ chunk_log = <<>>
    /\ ret = PyNone

registry_vars == <<local_tools, mcp_tools, max_iterations, supports_tools, supports_streaming,
                   injected, initial, it, retry_resp, idx, result, events, prov_log, n_tc,
                   n_chunks, chunk_log>>

\* agent._tool_specs()
Call_ToolSpecs ==
    /\ pc = "idle"
    /\ mode' = "tool_specs"
    /\ ret' = ToolSpecs(local_tools, mcp_tools)
    /\ pc' = "done"
    /\ UNCHANGED <<registry_vars, messages, resp, args, exc, call_log>>

\* agent._parse_tool_args(tc)
Call_ParseToolArgs ==
    /\ pc = "idle"
    /\ \E raw \in RawPayloads :
         /\ resp' = [content |-> None, tool_calls |-> <<ToolCall("call_0", "loc", raw)>>]
         /\ ret' = ParseToolArgs(ToolCall("call_0", "loc", raw))
    /\ mode' = "parse_tool_args"
    /\ pc' = "done"
    /\ UNCHANGED <<registry_vars, messages, args, exc, call_log>>

\* agent._serialize_tool_result(result)
Call_SerializeToolResult ==
    /\ pc = "idle"
    /\ \E v \in ResultValues :
         /\ args' = v
         /\ ret' = PyStr(SerializeToolResult(v))
    /\ mode' = "serialize_tool_result"
    /\ pc' = "done"
    /\ UNCHANGED <<registry_vars, messages, resp, exc, call_log>>

\* agent._handle_tool_calls(messages, [tc]): the assistant message, then decode,
\* execute, and the tool message unless the tool raised
Call_HandleToolCalls ==
    /\ pc = "idle"
    /\ \E name \in CalledNames, raw \in RawPayloads :
         LET tc == ToolCall("call_0", name, raw)
             a == ParseToolArgs(tc)
             withAssistant == AppendMessage(messages, SyntheticAssistant(<<tc>>))
         IN \E out \in UnitOutcomes(tc) :
              LET r == ExecuteToolCall(local_tools, mcp_tools, tc, a, out) IN
              /\ resp' = [content |-> None, tool_calls |-> <<tc>>]
              /\ args' = a
              /\ call_log' = LogInvocation(call_log, r, tc, a, out, Len(withAssistant) + 1, 0)
              /\ IF r.raised
                 THEN /\ messages' = withAssistant
                      /\ exc' = [type |-> r.exc, src |-> "tool", msg |-> r.msg]
                      /\ pc' = "raised"
                 ELSE /\ messages' = AppendMessage(withAssistant, ToolMessage(tc, r.str))
                      /\ exc' = exc
                      /\ pc' = "done"
    /\ mode' = "handle_tool_calls"
    /\ UNCHANGED <<registry_vars, ret>>

NextRegistry ==
    \/ Call_ToolSpecs
    \/ Call_ParseToolArgs
    \/ Call_SerializeToolResult
    \/ Call_HandleToolCalls

SpecRegistry == InitRegistry /\ [][NextRegistry]_vars

-----------------------------------------------------------------------------
(* Vocabulary of the properties.                                           *)

IsPrefix(s, t) == Len(s) <= Len(t) /\ SubSeq(t, 1, Len(s)) = s

\* the messages appended during the turn
Appended == SubSeq(messages, Len(initial) + 1, Len(messages))

\* the code of respond is running or has run (directly, or under respond_stream
\* with a provider that does not stream)
InRespond == mode = "respond" \/ (mode = "stream" /\ ~supports_streaming)

\* respond has returned a value
RespondReturned ==
    \/ mode = "respond" /\ pc = "done"
    \/ mode = "stream" /\ ~supports_streaming /\ pc \in {"y_fallback", "done", "closed"}

Resolvable(name) == FindTool(local_tools, mcp_tools, name).target # "none"

\* m answers the tool call tc
Answers(m, tc) == m.role = "tool" /\ m.tool_call_id = tc.id /\ m.name = tc.name

\* msgs is, for each list of tool calls of L in turn, one assistant message carrying
\* the list followed by one tool message per call, in the order of the list
RECURSIVE Paired(_, _)
Paired(msgs, L) ==
    IF L = <<>> THEN msgs = <<>>
    ELSE LET tcs == Head(L)
             n == Len(tcs)
         IN /\ Len(msgs) >= n + 1
            /\ msgs[1].role = "assistant"
            /\ msgs[1].tool_calls = tcs
            /\ \A i \in 1..n : Answers(msgs[i + 1], tcs[i])
            /\ Paired(SubSeq(msgs, n + 2, Len(msgs)), Tail(L))

\* the non-empty lists of tool calls the provider returned, in order
RECURSIVE CallLists(_)
CallLists(log) ==
    IF log = <<>> THEN <<>>
    ELSE (IF Head(log).tool_calls # <<>> THEN <<Head(log).tool_calls>> ELSE <<>>)
         \o CallLists(Tail(log))

IsLoopCall(e) == ~e.retry

\* every assistant message of msgs that carries tool calls is followed by a tool
\* message for each of them
NoDangling(msgs) ==
    \A p \in 1..Len(msgs) :
        (msgs[p].role = "assistant" /\ msgs[p].tool_calls # <<>>) =>
            \A i \in 1..Len(msgs[p].tool_calls) :
                p + i <= Len(msgs) /\ Answers(msgs[p + i], msgs[p].tool_calls[i])

\* the turn was cut short by cancellation: an interrupt raised inside it, or the
\* consumer of the stream stopping
Cancelled == (pc = "raised" /\ exc.type = "KeyboardInterrupt") \/ pc = "closed"

LastCall == call_log[Len(call_log)]
LastMessage == messages[Len(messages)]
LastProv == prov_log[Len(prov_log)]

-----------------------------------------------------------------------------
(* Properties.                                                             *)

\* C1: at every point during and after respond / respond_stream the caller's list
\* still begins with exactly the messages it held before the call, in their order.
C1_AppendOnly == IsPrefix(initial, messages)

C1_Witness ==
    /\ pc = "raised"
    /\ Len(initial) > 1
    /\ Len(messages) > Len(initial) + 1

\* C2 as stated: when respond returns with a tool-supporting provider, every tool
\* call the provider returned during the turn (the recovery retry's response
\* included) has its one tool message, after the assistant message carrying it,
\* in the provider's order.
C2_EveryReturnedCallAnswered ==
    (RespondReturned /\ supports_tools) => Paired(Appended, CallLists(prov_log))

\* C2 amended: when respond returns with a tool-supporting provider, the messages
\* appended in the turn are exactly, for each response to a generate call of the
\* iteration loop that carried tool calls, the assistant message carrying them
\* followed by one tool message per call with its tool_call_id and name, in the
\* provider's order; the calls of the retry's response get none.
C2_LoopCallsAnswered ==
    (RespondReturned /\ supports_tools) =>
        Paired(Appended, CallLists(SelectSeq(prov_log, IsLoopCall)))

C2_Witness ==
    /\ mode = "respond" /\ pc = "done" /\ supports_tools
    /\ Len(prov_log) = 2
    /\ Len(prov_log[1].tool_calls) = 2
    /\ Len(Appended) = 3

\* C3: a turn cut short by cancellation leaves no assistant tool-call message
\* without a tool message for each of its calls.
C3_NoDanglingAfterCancel == Cancelled => NoDangling(messages)

\* C4: in respond, an exception raised by a local handler or by call_tool leaves
\* respond: nothing is appended for the failing call or a later one, no provider
\* call follows, and the history ends with the assistant message of that response
\* and the results of the calls before the failing one.
C4_FailFast ==
    (InRespond /\ \E i \in 1..Len(call_log) :
                     call_log[i].outcome = "raise" /\ call_log[i].exc = "Exception") =>
        /\ LastCall.outcome = "raise"
        /\ pc = "raised" /\ exc.type = "Exception" /\ exc.src = "tool"
        /\ ~LastProv.retry
        /\ LastProv.tool_calls = resp.tool_calls
        /\ resp.tool_calls[idx] = LastCall.tc
        /\ Len(messages) = LastProv.nmsgs + idx
        /\ messages[LastProv.nmsgs + 1] = SyntheticAssistant(resp.tool_calls)
        /\ \A k \in 1..(idx - 1) :
              Answers(messages[LastProv.nmsgs + 1 + k], resp.tool_calls[k])

C4_Witness ==
    /\ mode = "respond" /\ pc = "raised" /\ exc.src = "tool" /\ exc.type = "Exception"
    /\ idx = 2
    /\ LastCall.target = "mcp"

ErrorContents == {"Error: " \o o.msg : o \in {h \in HandlerOutcomes : h.kind = "raise"}}

\* C5: in the blocking turn an exception raised by a handler or by call_tool does
\* not leave the turn: a tool message whose content contains "Error" is appended
\* for the call.
C5_ErrorBecomesToolMessage ==
    (InRespond /\ call_log # <<>> /\ LastCall.outcome = "raise"
               /\ LastCall.exc = "Exception") =>
        /\ pc # "raised"
        /\ Len(messages) >= LastCall.pos
        /\ Answers(messages[LastCall.pos], LastCall.tc)
        /\ messages[LastCall.pos].content \in ErrorContents

CancelledContents == {"Tool execution cancelled by user"}

\* C6: in the blocking turn an interrupt raised by a handler does not leave the
\* turn: a tool message saying the call was cancelled is appended for the call.
C6_InterruptBecomesToolMessage ==
    (InRespond /\ call_log # <<>> /\ LastCall.outcome = "raise"
               /\ LastCall.exc = "KeyboardInterrupt") =>
        /\ pc # "raised"
        /\ Len(messages) >= LastCall.pos
        /\ Answers(messages[LastCall.pos], LastCall.tc)
        /\ messages[LastCall.pos].content \in CancelledContents

\* every provider call so far was answered with tool calls to registered tools,
\* and every handler returned
AlwaysToolAnswers ==
    /\ supports_tools
    /\ \A i \in 1..Len(prov_log) :
          /\ ~prov_log[i].raised
          /\ prov_log[i].tool_calls # <<>>
          /\ \A k \in 1..Len(prov_log[i].tool_calls) : Resolvable(prov_log[i].tool_calls[k].name)
    /\ \A i \in 1..Len(call_log) : call_log[i].outcome = "return"

\* C7: if the provider always answers with a tool call to a registered tool whose
\* handler returns, respond makes no more than max_iterations provider calls and,
\* when it ends, has returned "" after exactly max_iterations calls, not raised.
C7_IterationBound ==
    (InRespond /\ AlwaysToolAnswers) =>
        /\ Len(prov_log) <= max_iterations
        /\ pc # "raised"
        /\ RespondReturned => (result = "" /\ Len(prov_log) = max_iterations)

C7_Witness ==
    /\ mode = "respond" /\ pc = "done" /\ AlwaysToolAnswers
    /\ max_iterations = MaxIter
    /\ Len(prov_log) = MaxIter

\* C8: if the first response has non-empty content X and no tool calls, respond
\* returns X after exactly one provider call and the history is as it was.
C8_ContentFirst ==
    (InRespond /\ prov_log # <<>> /\ ~prov_log[1].raised
               /\ Truthy(prov_log[1].content) /\ prov_log[1].tool_calls = <<>>) =>
        /\ RespondReturned
        /\ result = prov_log[1].content
        /\ Len(prov_log) = 1
        /\ messages = initial

C8_Witness ==
    /\ mode = "respond" /\ pc = "done" /\ supports_tools
    /\ Len(prov_log) = 1 /\ result = "X" /\ Len(initial) > 1

\* the tool call that the tool message at position p answers: the call at the same
\* offset in the nearest assistant message before p
CallAnsweredAt(p) ==
    LET a == CHOOSE q \in 1..p : /\ messages[q].role = "assistant"
                                 /\ \A r \in (q + 1)..p : messages[r].role = "tool"
    IN messages[a].tool_calls[p - a]

\* C9: a call to a name that is neither local nor remote invokes nothing and raises
\* nothing: its tool message has the call's id and name and content "", the other
\* calls of the response are processed, and the loop goes on to the next provider
\* call, whose content respond returns.
C9_UnknownTool ==
    /\ \A i \in 1..Len(call_log) : Resolvable(call_log[i].tc.name)
    /\ \A p \in (Len(initial) + 1)..Len(messages) :
          (messages[p].role = "tool" /\ ~Resolvable(messages[p].name)) =>
              messages[p] = ToolMessage(CallAnsweredAt(p), "")
    /\ (pc = "raised" /\ exc.src = "tool") => Resolvable(resp.tool_calls[idx].name)
    /\ (InRespond /\ pc \in {"generate", "retry"}) => NoDangling(messages)
    /\ (InRespond /\ pc = "tool") => Len(messages) = LastProv.nmsgs + idx
    /\ (RespondReturned /\ prov_log # <<>> /\ ~LastProv.retry) =>
          IF ShouldExecuteTools(supports_tools, LastProv)
          THEN result = "" /\ it = max_iterations /\ NoDangling(messages)
          ELSE result = LastProv.content

C9_Witness ==
    /\ mode = "respond" /\ pc = "done" /\ result = "X"
    /\ Len(Appended) = 3
    /\ Appended[2] = ToolMessage(ToolCall("call_0", "ghost", PyStr("null")), "")
    /\ Appended[3].name = "loc"
    /\ Len(call_log) = 1

Malformed(raw) == raw.kind = "str" /\ raw.str # "" /\ ~JsonLoads(raw.str).ok

\* C10: a call whose arguments are a string that is not valid JSON does not make
\* the turn raise: the resolved handler is invoked with an empty map, and its
\* result is stored as the tool message of the call.
C10_MalformedArguments ==
    /\ \A i \in 1..Len(call_log) :
          Malformed(call_log[i].tc.arguments) =>
              /\ call_log[i].args = EmptyDict
              /\ call_log[i].outcome = "return"
                    => /\ Len(messages) >= call_log[i].pos
                       /\ messages[call_log[i].pos] =
                              ToolMessage(call_log[i].tc, SerializeToolResult(call_log[i].value))
    /\ (pc = "raised" /\ exc.src = "tool") => LastCall.outcome = "raise"

C10_Witness ==
    /\ mode = "respond" /\ pc = "done" /\ result = "X"
    /\ Len(call_log) = 1
    /\ Malformed(call_log[1].tc.arguments)
    /\ call_log[1].args = EmptyDict
    /\ messages[call_log[1].pos].content = "{\"result\": 42}"

-----------------------------------------------------------------------------
(* The streaming turn.                                                     *)

\* respond_stream runs its own loop (the provider streams)
Streaming == mode = "stream" /\ supports_streaming

\* respond_stream passes the turn to respond (the provider does not stream)
Fallback == mode = "stream" /\ ~supports_streaming

\* what respond returns, as a function of what the provider answered: the content
\* of the retry or "" in its place, "" when the last response of the loop had its
\* tools executed or when no call was made, else the content of the last response
RespondValue(log) ==
    IF log = <<>> THEN ""
    ELSE LET e == log[Len(log)] IN
         IF e.retry THEN (IF Truthy(e.content) THEN e.content ELSE "")
         ELSE IF supports_tools /\ e.tool_calls # <<>> THEN ""
         ELSE e.content

\* what respond leaves in the history, as a function of what the provider and the
\* tools answered: the exchanges of the loop's responses, each result serialized
\* into the message of its call, "" for a call nothing was invoked for
RespondHistory ==
    /\ Paired(Appended, IF supports_tools
                        THEN CallLists(SelectSeq(prov_log, IsLoopCall)) ELSE <<>>)
    /\ \A i \in 1..Len(call_log) :
          call_log[i].outcome = "return" =>
              messages[call_log[i].pos].content = SerializeToolResult(call_log[i].value)
    /\ \A p \in (Len(initial) + 1)..Len(messages) :
          (messages[p].role = "tool" /\ ~Resolvable(messages[p].name)) =>
              messages[p].content = ""

\* C11: with a provider that does not stream, respond_stream never calls
\* generate_stream and yields nothing until respond has returned, then exactly one
\* event, of type content, carrying the value respond returned; that value and the
\* messages appended are those of respond, the same function of the answers of
\* the provider and of the tools whichever entry point was used.
C11_FallbackIsRespond ==
    /\ Fallback =>
          /\ \A i \in 1..Len(prov_log) : prov_log[i].api = "generate"
          /\ chunk_log = <<>>
          /\ events = IF RespondReturned
                      THEN <<StreamEvent("content", result, None, PyNone, None)>>
                      ELSE <<>>
    /\ (InRespond /\ RespondReturned) =>
          /\ result = RespondValue(prov_log)
          /\ RespondHistory

C11_Witness ==
    /\ Fallback /\ pc = "done"
    /\ Len(events) = 1 /\ events[1].content = "X"
    /\ Len(call_log) = 2
    /\ Len(prov_log) = 2

\* chunk k of the log carried tool calls and had them executed
ToolChunk(k) == supports_tools /\ chunk_log[k].tool_calls # <<>>

\* the consumption of provider stream s ended with a chunk whose tools were executed
EndedInTools(s) == \E k \in 1..Len(chunk_log) : chunk_log[k].stream = s /\ ToolChunk(k)

\* C12: in respond_stream an exception raised by a handler or by call_tool does not
\* leave the generator: the message of the call is a tool message with content
\* "Error: " and the exception's message, the event after tool_call_start is a
\* tool_call_error with the tool name and that message, the remaining calls of the
\* chunk are executed before anything else, and the turn then goes on to the next
\* provider stream, ending there only when max_iterations streams were opened.
C12_StreamErrorRecovered ==
    Streaming =>
      /\ \A i \in 1..Len(call_log) :
            (call_log[i].outcome = "raise" /\ call_log[i].exc = "Exception") =>
               /\ Len(messages) >= call_log[i].pos
               /\ messages[call_log[i].pos] =
                      ToolMessage(call_log[i].tc, "Error: " \o call_log[i].msg)
               /\ Len(events) > call_log[i].epos
               /\ events[call_log[i].epos + 1] =
                      StreamEvent("tool_call_error", None, call_log[i].tc.name, PyNone,
                                  call_log[i].msg)
      /\ (pc = "raised" /\ exc.src = "tool") => exc.type # "Exception"
      /\ pc \in {"s_open", "s_pull", "y_content", "done"} => NoDangling(messages)
      /\ (pc = "done" /\ prov_log # <<>> /\ EndedInTools(Len(prov_log))) =>
            Len(prov_log) = max_iterations

C12_Witness ==
    /\ Streaming /\ pc = "s_pull"
    /\ Len(prov_log) = 2
    /\ Len(call_log) = 2
    /\ call_log[1].outcome = "raise" /\ call_log[1].exc = "Exception"
    /\ call_log[2].pos = call_log[1].pos + 1
    /\ call_log[2].outcome = "return"

IsToolStart(e) == e.type = "tool_call_start"
IsToolEnd(e) == e.type \in {"tool_call_end", "tool_call_error"}

\* C13: in the events of respond_stream a tool_call_start is followed, if by
\* anything, by a tool_call_end or tool_call_error of the same tool name, and each
\* of those directly follows such a start; the start carries the name and the
\* decoded arguments of its call and was the last event handed over when the tool
\* was invoked; a tool that returned has tool_call_end after its start, a tool that
\* raised an Exception tool_call_error, and there is one such event per tool message.
C13_Bracketed ==
    Streaming =>
      /\ \A j \in 1..Len(events) :
            /\ (IsToolStart(events[j]) /\ j < Len(events)) =>
                  /\ IsToolEnd(events[j + 1])
                  /\ events[j + 1].tool_name = events[j].tool_name
            /\ IsToolEnd(events[j]) =>
                  /\ j > 1
                  /\ IsToolStart(events[j - 1])
                  /\ events[j - 1].tool_name = events[j].tool_name
      /\ (events # <<>> /\ IsToolStart(events[Len(events)])) =>
            pc \in {"y_start", "raised", "closed"}
      /\ \A i \in 1..Len(call_log) :
            LET c == call_log[i] IN
            /\ c.epos >= 1
            /\ events[c.epos] =
                  StreamEvent("tool_call_start", None, c.tc.name, ParseToolArgs(c.tc), None)
            /\ c.args = ParseToolArgs(c.tc)
            /\ c.outcome = "return" =>
                  Len(events) > c.epos /\ events[c.epos + 1].type = "tool_call_end"
            /\ (c.outcome = "raise" /\ c.exc = "Exception") =>
                  Len(events) > c.epos /\ events[c.epos + 1].type = "tool_call_error"
            /\ (c.outcome = "raise" /\ c.exc # "Exception") => Len(events) = c.epos
      /\ Cardinality({j \in 1..Len(events) : IsToolEnd(events[j])})
            = Cardinality({p \in (Len(initial) + 1)..Len(messages) : messages[p].role = "tool"})

C13_Witness ==
    /\ Streaming /\ pc = "y_end"
    /\ Len(events) = 5
    /\ events[1].type = "content"
    /\ events[3].type = "tool_call_error"
    /\ events[5].type = "tool_call_end"
    /\ events[2].tool_args = EmptyDict /\ events[4].tool_args = PyDict(ArgsX5)

\* C14: in respond_stream with a tool-supporting provider the chunk after a chunk
\* with tool calls comes from a later stream, chunks are never taken from a stream
\* older than that of the chunk before, a stream is opened only when every earlier
\* one ended with a chunk whose tools were executed, and what the next provider
\* call is given holds the assistant message of that chunk and then one tool
\* message per call of it, so that the history of every provider call is complete.
C14_OneStreamAtATime ==
    (Streaming /\ supports_tools) =>
      /\ \A k \in 1..(Len(chunk_log) - 1) :
            /\ chunk_log[k].stream <= chunk_log[k + 1].stream
            /\ chunk_log[k].tool_calls # <<>> => chunk_log[k].stream < chunk_log[k + 1].stream
      /\ \A k \in 1..Len(chunk_log) : chunk_log[k].stream = Len(prov_log) => k = Len(chunk_log) \/ chunk_log[k].tool_calls = <<>>
      /\ \A s \in 1..(Len(prov_log) - 1) : EndedInTools(s)
      /\ \A s \in 1..Len(prov_log) :
            /\ prov_log[s].api = "generate_stream"
            /\ NoDangling(SubSeq(messages, 1, prov_log[s].nmsgs))
      /\ \A k \in 1..Len(chunk_log) :
            (chunk_log[k].tool_calls # <<>> /\ chunk_log[k].stream < Len(prov_log)) =>
               LET c == chunk_log[k]
                   n == Len(c.tool_calls)
               IN /\ prov_log[c.stream + 1].nmsgs = c.nmsgs + 1 + n
                  /\ messages[c.nmsgs + 1] = SyntheticAssistant(c.tool_calls)
                  /\ \A j \in 1..n : Answers(messages[c.nmsgs + 1 + j], c.tool_calls[j])

C14_Witness ==
    /\ Streaming /\ supports_tools
    /\ Len(prov_log) = 2
    /\ Len(chunk_log) = 2
    /\ Len(chunk_log[1].tool_calls) = 2 /\ chunk_log[1].stream = 1
    /\ chunk_log[2].stream = 2

IsContent(e) == e.type = "content"
HasText(c) == c.content # None /\ c.content # ""

\* what follows the content of chunk k in the events, if the chunk was read so far
AfterContent(k) == chunk_log[k].epos + (IF HasText(chunk_log[k]) THEN 1 ELSE 0)

\* C15: the content events of respond_stream are, in order, the contents of the
\* chunks read that had a non-empty content, one event per such chunk; the event
\* of a chunk is the first one yielded once the chunk was read and is yielded
\* before the next chunk is read, and the tool_call_start of the chunk's first
\* call comes right after it.
C15_ContentInOrder ==
    Streaming =>
      LET ce == SelectSeq(events, IsContent)
          tc == SelectSeq(chunk_log, HasText)
      IN /\ Len(ce) = Len(tc)
         /\ \A j \in 1..Len(ce) :
               ce[j] = StreamEvent("content", tc[j].content, None, PyNone, None)
         /\ \A k \in 1..Len(chunk_log) :
               /\ HasText(chunk_log[k]) =>
                     /\ Len(events) > chunk_log[k].epos
                     /\ events[chunk_log[k].epos + 1] =
                           StreamEvent("content", chunk_log[k].content, None, PyNone, None)
               /\ k < Len(chunk_log) => chunk_log[k + 1].epos >= AfterContent(k)
               /\ (ToolChunk(k) /\ Len(events) > AfterContent(k)) =>
                     events[AfterContent(k) + 1] =
                        StreamEvent("tool_call_start", None, chunk_log[k].tool_calls[1].name,
                                    ParseToolArgs(chunk_log[k].tool_calls[1]), None)

C15_Witness ==
    /\ Streaming /\ supports_tools
    /\ Len(prov_log) = 1
    /\ Len(chunk_log) = 2
    /\ chunk_log[1].content = "X" /\ chunk_log[1].tool_calls = <<>>
    /\ chunk_log[2].content = "X" /\ chunk_log[2].tool_calls # <<>>
    /\ Len(events) = 4
    /\ events[1].type = "content" /\ events[2].type = "content"

EventTypes == {"content", "tool_call_start", "tool_call_end", "tool_call_error"}

\* C16: respond_stream opens at most max_iterations provider streams, makes no
\* other provider call (no retry), yields only content and tool events, with a
\* tool_call_error only for a tool that raised, and raises nothing of its own; when
\* it finishes, either the last stream it opened ran out without a chunk whose
\* tools were executed, whatever was yielded, or it opened max_iterations streams
\* and each ended with such a chunk.
C16_StreamTermination ==
    Streaming =>
      /\ Len(prov_log) <= max_iterations
      /\ \A s \in 1..Len(prov_log) :
            prov_log[s].api = "generate_stream" /\ ~prov_log[s].retry
      /\ \A j \in 1..Len(events) : events[j].type \in EventTypes
      /\ Cardinality({j \in 1..Len(events) : events[j].type = "tool_call_error"})
            = Cardinality({i \in 1..Len(call_log) :
                              call_log[i].outcome = "raise" /\ call_log[i].exc = "Exception"})
      /\ pc = "raised" =>
            \/ exc.src = "provider" /\ prov_log # <<>>
            \/ exc.src = "tool" /\ LastCall.outcome = "raise" /\ LastCall.exc = exc.type
                  /\ exc.type # "Exception"
      /\ pc = "done" =>
            /\ exc = NoExc
            /\ \/ prov_log # <<>> /\ ~EndedInTools(Len(prov_log))
               \/ /\ Len(prov_log) = max_iterations
                  /\ \A s \in 1..Len(prov_log) : EndedInTools(s)

C16_Witness ==
    /\ Streaming /\ pc = "done"
    /\ max_iterations = MaxIter
    /\ Len(prov_log) = MaxIter
    /\ \A s \in 1..MaxIter : EndedInTools(s)

\* a streaming turn that finished on its first stream having yielded nothing
C16_SilentEnd ==
    /\ Streaming /\ pc = "done"
    /\ max_iterations = MaxIter
    /\ Len(prov_log) = 1 /\ chunk_log # <<>> /\ events = <<>>

-----------------------------------------------------------------------------
(* The blocking turn, continued.                                           *)

\* entry e of the provider log is a response of the loop that is finalized (its
\* tools are not executed) and has no content
EmptyFinal(e) ==
    /\ IsLoopCall(e) /\ ~e.raised
    /\ ~(supports_tools /\ e.tool_calls # <<>>)
    /\ (e.content = None \/ e.content = "")

\* C17: in respond a finalized response with null or empty content is followed by
\* exactly one more generate call, the last of the turn, made without tools on the
\* same history; respond returns its content, or "" when that is null or empty;
\* nothing is appended and no tool is invoked after it, whatever tool calls its
\* response carries; and no other response is followed by such a call.
C17_SingleRetry ==
    InRespond =>
      \A i \in 1..Len(prov_log) :
         LET e == prov_log[i] IN
         /\ EmptyFinal(e) =>
               IF i = Len(prov_log) THEN pc = "retry"
               ELSE i + 1 = Len(prov_log) /\ prov_log[i + 1].retry
         /\ e.retry =>
               /\ i = Len(prov_log) /\ i > 1
               /\ EmptyFinal(prov_log[i - 1])
               /\ e.api = "generate"
               /\ ~e.tools.declared
               /\ e.nmsgs = prov_log[i - 1].nmsgs
               /\ Len(messages) = e.nmsgs
               /\ \A k \in 1..Len(call_log) : call_log[k].pos <= e.nmsgs
               /\ IF e.raised THEN pc = "raised"
                  ELSE /\ RespondReturned
                       /\ result = (IF e.content = None \/ e.content = "" THEN "" ELSE e.content)

C17_Witness ==
    /\ mode = "respond" /\ pc = "done" /\ supports_tools
    /\ Len(prov_log) = 2
    /\ prov_log[1].content = "" /\ prov_log[1].tool_calls = <<>>
    /\ LastProv.retry /\ LastProv.content = None /\ LastProv.tool_calls # <<>>
    /\ result = ""
    /\ messages = initial

\* the retry's own content is what respond returns when it has one
C17_RetryContent ==
    /\ mode = "respond" /\ pc = "done"
    /\ Len(prov_log) = 2
    /\ LastProv.retry /\ LastProv.content = "X" /\ result = "X"

\* the assistant message whose calls are being answered at position p
OwnerOf(p) ==
    CHOOSE q \in 1..(p - 1) : /\ messages[q].role = "assistant"
                              /\ \A r \in (q + 1)..(p - 1) : messages[r].role = "tool"

\* C18: every invocation of a handler or of call_tool is for the call whose turn it
\* is in the list of the latest assistant message: when it is made, the calls
\* listed before it have their tool messages, in the order of the list, directly
\* after that assistant message, and its own message is the next to be appended;
\* the invocations of a turn are made in the order of these positions, so the
\* tools of an earlier response all run before those of a later one.
C18_InOrder ==
    /\ \A i \in 1..Len(call_log) :
          LET c == call_log[i]
              a == OwnerOf(c.pos)
              k == c.pos - a
          IN /\ a > Len(initial)
             /\ c.pos <= Len(messages) + 1
             /\ k \in 1..Len(messages[a].tool_calls)
             /\ c.tc = messages[a].tool_calls[k]
             /\ \A j \in 1..(k - 1) : Answers(messages[a + j], messages[a].tool_calls[j])
    /\ \A i \in 1..(Len(call_log) - 1) :
          /\ call_log[i].pos < call_log[i + 1].pos
          /\ call_log[i].pos <= Len(messages)

C18_Witness ==
    /\ mode = "respond"
    /\ Len(prov_log) = 1
    /\ Len(call_log) = 2
    /\ call_log[1].tc # call_log[2].tc
    /\ call_log[2].pos = call_log[1].pos + 1
    /\ Len(messages) = call_log[2].pos

\* two responses with one tool call each: the two invocations are an assistant
\* message apart
C18_AcrossResponses ==
    /\ mode = "respond"
    /\ Len(prov_log) = 2
    /\ Len(call_log) = 2
    /\ call_log[2].pos = call_log[1].pos + 2

\* C19: with a provider that does not support tools, no handler and no remote
\* tool is ever invoked, the history stays as it was given, and only content
\* events are yielded; in respond a response is finalized on its content whatever
\* tool calls it carries (returned as it is, or the single retry when it is null
\* or empty); in respond_stream a chunk with tool calls does not stop the reading
\* of its stream: no tool event position is reached and no second stream is opened.
C19_NoToolSupport ==
    ~supports_tools =>
      /\ call_log = <<>>
      /\ messages = initial
      /\ \A j \in 1..Len(events) : events[j].type = "content"
      /\ pc \notin {"tool", "y_start", "y_end"}
      /\ InRespond =>
            /\ Len(prov_log) <= 2
            /\ Len(prov_log) = 2 =>
                  /\ prov_log[2].retry
                  /\ prov_log[1].content = None \/ prov_log[1].content = ""
            /\ (RespondReturned /\ Len(prov_log) = 1) => result = prov_log[1].content
            /\ (RespondReturned /\ Len(prov_log) = 2 /\ prov_log[2].content = "X") => result = "X"
      /\ Streaming =>
            /\ Len(prov_log) <= 1
            /\ \A k \in 1..Len(chunk_log) : chunk_log[k].stream = 1
            /\ Len(events) = Len(SelectSeq(chunk_log, HasText))

C19_Witness ==
    /\ ~supports_tools /\ Streaming /\ pc = "done"
    /\ Len(chunk_log) = 2
    /\ chunk_log[1].tool_calls # <<>> /\ chunk_log[1].content = "X"
    /\ chunk_log[2].tool_calls = <<>> /\ chunk_log[2].content = "X"
    /\ Len(events) = 2

\* respond returns the content of a response that carries tool calls
C19_RespondFinalized ==
    /\ ~supports_tools /\ mode = "respond" /\ pc = "done"
    /\ Len(prov_log) = 1
    /\ prov_log[1].tool_calls # <<>>
    /\ result = "X"

\* C20: every provider call of the iteration loop of respond or respond_stream is
\* given the tool specs of the registry, the local tools' and then the remote
\* ones', when the provider supports tools, and no tools when it does not.
C20_ToolsDeclared ==
    \A i \in 1..Len(prov_log) :
       IsLoopCall(prov_log[i]) =>
          /\ prov_log[i].tools.declared = supports_tools
          /\ prov_log[i].tools.specs =
                IF supports_tools THEN ToolSpecs(local_tools, mcp_tools) ELSE <<>>

C20_Witness ==
    /\ supports_tools /\ Streaming
    /\ Len(prov_log) = 2
    /\ Len(prov_log[2].tools.specs) = Len(local_tools) + Len(mcp_tools)
    /\ Len(mcp_tools) > 0

\* a loop call of respond made without tools, to a provider that supports none
C20_NoneDeclared ==
    /\ ~supports_tools /\ mode = "respond"
    /\ Len(prov_log) = 1
    /\ ~prov_log[1].tools.declared

-----------------------------------------------------------------------------
(* Shape of the history.                                                   *)

IsAssistant(m) == m.role = "assistant"
IsTool(m) == m.role = "tool"

\* the consumer holds the content event of the last chunk read (or stopped
\* there): the tool calls of that chunk have not been looked at yet
ContentPending == pc = "y_content" \/ (pc = "closed" /\ exc.src = "y_content")

\* the tool-call lists the controller took up for execution in the turn so far
ExecutedLists ==
    IF ~supports_tools THEN <<>>
    ELSE IF Streaming
    THEN CallLists(IF ContentPending THEN SubSeq(chunk_log, 1, Len(chunk_log) - 1)
                                     ELSE chunk_log)
    ELSE CallLists(SelectSeq(prov_log, IsLoopCall))

\* C21: every message appended in a turn is an assistant message with no content,
\* no name, no tool_call_id and a non-empty tool_calls list, or a tool message
\* with the id and the name of the call at its place in the list of the assistant
\* message before it; the assistant messages appended are, one for one and in
\* order, the tool-call lists the provider returned and the controller executed;
\* and every tool invocation is for a call of an assistant message appended
\* before it in this turn.
C21_WellFormed ==
    /\ \A p \in (Len(initial) + 1)..Len(messages) :
          LET m == messages[p] IN
          /\ m.role \in {"assistant", "tool"}
          /\ m.role = "assistant" =>
                /\ m.content = None /\ m.name = None /\ m.tool_call_id = None
                /\ m.tool_calls # <<>>
          /\ m.role = "tool" =>
                /\ m.tool_call_id # None /\ m.name # None /\ m.content # None
                /\ m.tool_calls = <<>>
                /\ p > Len(initial) + 1
                /\ LET o == OwnerOf(p) IN
                   /\ o > Len(initial)
                   /\ p - o <= Len(messages[o].tool_calls)
                   /\ Answers(m, messages[o].tool_calls[p - o])
    /\ LET as == SelectSeq(Appended, IsAssistant)
           lists == ExecutedLists
       IN /\ Len(as) = Len(lists)
          /\ \A k \in 1..Len(as) : as[k].tool_calls = lists[k]
    /\ \A i \in 1..Len(call_log) :
          LET o == OwnerOf(call_log[i].pos) IN
          /\ o > Len(initial)
          /\ \E k \in 1..Len(messages[o].tool_calls) :
                messages[o].tool_calls[k] = call_log[i].tc

C21_Witness ==
    /\ mode = "respond" /\ pc = "done"
    /\ Len(Appended) = 4
    /\ Appended[1].role = "assistant" /\ Appended[2].role = "tool"
    /\ Appended[3].role = "assistant" /\ Appended[4].role = "tool"
    /\ Appended[1].tool_calls # Appended[3].tool_calls

-----------------------------------------------------------------------------
(* The registry.                                                           *)

HasLocal(name) == \E i \in 1..Len(local_tools) : local_tools[i].name = name
HasRemote(name) == \E i \in 1..Len(mcp_tools) : mcp_tools[i].key = name

\* C22: a call to a name that a local tool has is dispatched to a local handler of
\* that name and to no tool source, whether or not a source reported the name
\* too; a tool source is called only for a name no local tool has.
C22_LocalFirst ==
    \A i \in 1..Len(call_log) :
       LET c == call_log[i] IN
       /\ HasLocal(c.tc.name) =>
             /\ c.target = "local" /\ c.client = None
             /\ local_tools[c.tpos].name = c.tc.name
       /\ c.target = "mcp" =>
             /\ ~HasLocal(c.tc.name)
             /\ mcp_tools[c.tpos].key = c.tc.name

C22_Witness ==
    /\ mode = "handle_tool_calls" /\ pc = "done"
    /\ HasLocal("rem") /\ HasRemote("rem")
    /\ Len(call_log) = 1
    /\ call_log[1].tc.name = "rem"
    /\ call_log[1].target = "local"

\* C23: the list _tool_specs returns has no two entries of the same name.
C23_UniqueSpecNames ==
    mode = "tool_specs" =>
       \A i, j \in 1..Len(ret) : ret[i].name = ret[j].name => i = j

\* the tools the sources reported at discovery, in order; a source whose
\* list_tools raised reports nothing
RECURSIVE Reports(_)
Reports(clients) ==
    IF clients = <<>> THEN <<>>
    ELSE LET c == Head(clients) IN
         (IF c.raises THEN <<>>
          ELSE [i \in 1..Len(c.tools) |-> [meta |-> c.tools[i], client |-> c.id]])
         \o Reports(Tail(clients))

Reported == Reports(injected.clients)
FirstReportOf(n) ==
    CHOOSE i \in 1..Len(Reported) :
       Reported[i].meta.name = n /\ \A k \in 1..(i - 1) : Reported[k].meta.name # n
LastReportOf(n) ==
    CHOOSE i \in 1..Len(Reported) :
       Reported[i].meta.name = n /\ \A k \in (i + 1)..Len(Reported) : Reported[k].meta.name # n
FirstLocalOf(n) ==
    CHOOSE i \in 1..Len(local_tools) :
       local_tools[i].name = n /\ \A k \in 1..(i - 1) : local_tools[k].name # n

\* C24: for a name registered more than once the first registration wins: a call
\* is dispatched to the first local tool of the name or, with no local one, to
\* the source that reported it first, and every spec declared under the name has
\* the description and the parameters of that first registration.
C24_FirstRegistrationWins ==
    /\ \A i \in 1..Len(mcp_tools) :
          mcp_tools[i].val = Reported[FirstReportOf(mcp_tools[i].key)]
    /\ \A i \in 1..Len(call_log) :
          /\ call_log[i].target = "local" => call_log[i].tpos = FirstLocalOf(call_log[i].tc.name)
          /\ call_log[i].target = "mcp" =>
                call_log[i].client = Reported[FirstReportOf(call_log[i].tc.name)].client
    /\ mode = "tool_specs" =>
          \A i \in 1..Len(ret) :
             IF HasLocal(ret[i].name)
             THEN /\ ret[i].description = local_tools[FirstLocalOf(ret[i].name)].description
                  /\ ret[i].parameters = local_tools[FirstLocalOf(ret[i].name)].parameters
             ELSE /\ ret[i].description = Reported[FirstReportOf(ret[i].name)].meta.description
                  /\ ret[i].parameters = Reported[FirstReportOf(ret[i].name)].meta.parameters

\* C24 amended: of two local tools of one name a call is dispatched to the first;
\* of two reports of one name at discovery the last wins: the registry holds, at
\* the place of the first report of each reported name, the description, the
\* parameters and the source of its last report, that is what is declared for a
\* name no local tool has, and a call to such a name goes to that source.
C24_LocalFirstRemoteLast ==
    /\ Len(mcp_tools) = Cardinality({Reported[i].meta.name : i \in 1..Len(Reported)})
    /\ \A i \in 1..Len(mcp_tools) :
          /\ \E k \in 1..Len(Reported) : Reported[k].meta.name = mcp_tools[i].key
          /\ mcp_tools[i].val = Reported[LastReportOf(mcp_tools[i].key)]
          /\ \A j \in 1..(i - 1) :
                FirstReportOf(mcp_tools[j].key) < FirstReportOf(mcp_tools[i].key)
    /\ \A i \in 1..Len(call_log) :
          /\ call_log[i].target = "local" => call_log[i].tpos = FirstLocalOf(call_log[i].tc.name)
          /\ call_log[i].target = "mcp" =>
                call_log[i].client = Reported[LastReportOf(call_log[i].tc.name)].client
    /\ mode = "tool_specs" =>
          \A i \in 1..Len(ret) :
             ~HasLocal(ret[i].name) =>
                /\ ret[i].description = Reported[LastReportOf(ret[i].name)].meta.description
                /\ ret[i].parameters = Reported[LastReportOf(ret[i].name)].meta.parameters

C24_Witness ==
    /\ mode = "handle_tool_calls" /\ pc = "done"
    /\ Len(injected.clients) = 2
    /\ injected.clients[1].id = "srv1" /\ injected.clients[2].id = "srv2"
    /\ ~HasLocal("rem")
    /\ mcp_tools[1].key = "rem" /\ mcp_tools[1].val.client = "srv2"
    /\ Len(call_log) = 1
    /\ call_log[1].tc.name = "rem" /\ call_log[1].client = "srv2"

\* two local tools of one name: the call goes to the first
C24_TwoLocals ==
    /\ mode = "handle_tool_calls" /\ pc = "done"
    /\ Len(local_tools) = 2
    /\ local_tools[1].name = "loc" /\ local_tools[2].name = "loc"
    /\ local_tools[1] # local_tools[2]
    /\ Len(call_log) = 1
    /\ call_log[1].tc.name = "loc" /\ call_log[1].tpos = 1

Succeeds(c) == ~c.raises

\* C25: the agent is constructed whatever sources fail at discovery, and its
\* remote tools are those an agent given only the sources that did not fail
\* would have: a failing source adds nothing and takes nothing away, wherever it
\* stands among the others.
C25_DiscoveryFailureSkipped ==
    /\ mcp_tools = InitMcpTools(<<>>, SelectSeq(injected.clients, Succeeds))
    /\ \A i \in 1..Len(mcp_tools) :
          \E k \in 1..Len(injected.clients) :
             /\ Succeeds(injected.clients[k])
             /\ injected.clients[k].id = mcp_tools[i].val.client
    /\ \A k \in 1..Len(injected.clients) :
          Succeeds(injected.clients[k]) =>
             \A t \in 1..Len(injected.clients[k].tools) :
                HasRemote(injected.clients[k].tools[t].name)
    /\ local_tools = InitLocalTools(injected.tools)

C25_Witness ==
    /\ Len(injected.clients) = 2
    /\ injected.clients[1].raises /\ ~injected.clients[2].raises
    /\ Len(mcp_tools) = 2
    /\ mode = "handle_tool_calls" /\ pc = "done"
    /\ Len(call_log) = 1 /\ call_log[1].target = "mcp"

\* the failing source comes after a working one
C25_FailureAfter ==
    /\ Len(injected.clients) = 2
    /\ ~injected.clients[1].raises /\ injected.clients[2].raises
    /\ Len(mcp_tools) = 2
    /\ mode = "tool_specs"

\* the text the tool message of invocation e must carry
JsonTexts == {"{}", "{\"x\": 5}", "{\"result\": 42}", "null"}

ContentFor(e) ==
    IF e.outcome = "raise" THEN {"Error: " \o e.msg}
    ELSE IF e.value.kind = "str" THEN {e.value.str}
    ELSE IF e.value.kind = "object" THEN {e.value.str}
    ELSE IF e.value.kind = "bytes" THEN {"b'" \o e.value.str \o "'"}
    ELSE IF e.value.kind = "bytearray" THEN {"bytearray(b'" \o e.value.str \o "')"}
    ELSE JsonTexts

Unresolved(name) == ~HasLocal(name) /\ ~HasRemote(name)

\* C26: the content of every tool message a turn appends is a string: the
\* handler's string as it is, the JSON text of any other result or, when the
\* result has no JSON text, its str(); the empty string when the tool name
\* resolves to nothing; "Error: " and the message when the execution failed in
\* the streaming turn.
C26_ContentIsString ==
    /\ \A i \in (Len(initial) + 1)..Len(messages) :
          IsTool(messages[i]) =>
             /\ messages[i].content # None
             /\ Unresolved(messages[i].name) => messages[i].content = ""
    /\ \A k \in 1..Len(call_log) :
          LET e == call_log[k] IN
          (e.outcome = "return" \/ (Streaming /\ IsException(e.exc))) =>
             /\ Len(messages) >= e.pos
             /\ IsTool(messages[e.pos])
             /\ messages[e.pos].content \in ContentFor(e)
             /\ e.value.kind = "dict" => messages[e.pos].content = "{\"result\": 42}"

\* a streaming turn with a bytearray result, which json.dumps rejects, and a
\* failed execution
C26_Witness ==
    /\ Streaming /\ Len(call_log) = 2
    /\ call_log[1].outcome = "return" /\ call_log[1].value = PyByteArray("ok")
    /\ call_log[2].outcome = "raise"
    /\ Len(messages) = call_log[2].pos
    /\ messages[call_log[1].pos].content = "bytearray(b'ok')"
    /\ messages[call_log[2].pos].content = "Error: fail"

\* a turn with an object json.dumps rejects, stored by its str()
C26_ObjectResult ==
    /\ Len(call_log) = 1
    /\ call_log[1].outcome = "return" /\ call_log[1].value.kind = "object"
    /\ Len(messages) >= call_log[1].pos
    /\ messages[call_log[1].pos].content = "<obj>"

\* a blocking turn with a dict result and a name that resolves to nothing
C26_DictAndUnknown ==
    /\ mode = "respond" /\ Len(call_log) = 1
    /\ call_log[1].value.kind = "dict"
    /\ IsTool(LastMessage) /\ LastMessage.name = "ghost" /\ LastMessage.content = ""
    /\ Len(messages) > call_log[1].pos

IsMap(v) == v.kind = "dict"

\* the payload of the call whose arguments were decoded
DecodedPayload == resp.tool_calls[1].arguments

\* the payload is a text (str or bytes) holding a JSON object
HoldsJsonObject(raw) ==
    /\ raw.kind \in TextKinds
    /\ JsonLoads(raw.str).ok /\ IsMap(JsonLoads(raw.str).val)

\* C27: decoding the arguments of a tool call returns a map whatever the
\* payload is: the map itself, the parsed map when the payload is the text of a
\* JSON object, the empty map in every other case (valid JSON that is not an
\* object included); and a handler is only ever invoked with a map.
C27_DecodesToMap ==
    /\ mode = "parse_tool_args" =>
          /\ IsMap(ret)
          /\ IsMap(DecodedPayload) => ret = DecodedPayload
          /\ HoldsJsonObject(DecodedPayload) => ret = JsonLoads(DecodedPayload.str).val
          /\ (~IsMap(DecodedPayload) /\ ~HoldsJsonObject(DecodedPayload)) => ret = EmptyDict
    /\ \A k \in 1..Len(call_log) : IsMap(call_log[k].args)

\* respond is between its entry and its return
RespondRunning == InRespond /\ pc \in {"generate", "tool", "retry"}

\* how far respond is from its return: the iterations left, then the tool calls
\* left in the response at hand, then the retry
RankBase == MaxToolCalls + 3

RespondRank ==
    CASE pc = "generate" -> (max_iterations - it + 1) * RankBase
      [] pc = "tool"     -> (max_iterations - it) * RankBase + 2 + Len(resp.tool_calls) - idx
      [] pc = "retry"    -> 1
      [] OTHER           -> 0

RespondBounded ==
    InRespond =>
       /\ Len(prov_log) <= max_iterations + 1
       /\ Len(SelectSeq(prov_log, IsLoopCall)) <= max_iterations
       /\ \A k \in 1..Len(prov_log) :
             prov_log[k].retry =>
                /\ k = Len(prov_log) /\ k > 1
                /\ EmptyFinal(prov_log[k - 1])
       /\ max_iterations = 0 =>
             /\ RespondReturned /\ result = ""
             /\ prov_log = <<>> /\ call_log = <<>> /\ messages = initial
       /\ RespondRunning =>
             /\ it \in 1..max_iterations /\ RespondRank \in 1..((max_iterations + 1) * RankBase)
             /\ ENABLED (Generate \/ HandleToolCall \/ Retry)

RespondProgress == RespondRunning => RespondRank' < RespondRank

\* C28: respond terminates when the provider and the handlers return: while it
\* runs a step is always possible and every step brings it nearer to its return.
\* It makes at most max_iterations + 1 generate calls, at most max_iterations of
\* them in the loop and at most one retry, the last call of the turn, made only
\* after a response of the loop without tool execution; with max_iterations = 0
\* it returns "" having called no provider and left the history as it was.
C28_RespondTerminates == []RespondBounded /\ [][RespondProgress]_vars

\* a turn of max_iterations + 1 generate calls: tools, an empty final, the retry
C28_Witness ==
    /\ mode = "respond" /\ pc = "done"
    /\ max_iterations = MaxIter /\ Len(prov_log) = max_iterations + 1
    /\ LastProv.retry /\ call_log # <<>>

\* the loop of respond has no iteration
C28_ZeroIterations ==
    /\ mode = "respond" /\ pc = "done" /\ max_iterations = 0 /\ result = ""

\* the tool messages of the turn and the tool events handed to the consumer
ToolMessages == SelectSeq(Appended, IsTool)
StartEvents == SelectSeq(events, IsToolStart)
EndEvents == SelectSeq(events, IsToolEnd)

\* C29: in respond_stream the history and the events stay in step.  The k-th
\* tool_call_end or tool_call_error goes with the k-th tool message of the turn,
\* which is in the history when the event is handed over: same tool name, an
\* error event exactly when the content is the "Error: ..." text; when the
\* generator has finished there are as many starts as ends and errors, and as
\* many tool messages; a name that resolves to nothing gets tool_call_start,
\* then tool_call_end, and content "".
C29_HistoryAndEventsInStep ==
    Streaming =>
      /\ Len(EndEvents) = Len(ToolMessages)
      /\ Len(StartEvents) \in {Len(EndEvents), Len(EndEvents) + 1}
      /\ pc = "done" => Len(StartEvents) = Len(EndEvents)
      /\ pc = "y_start" => Len(StartEvents) = Len(ToolMessages) + 1
      /\ pc = "y_end" =>
            /\ IsToolEnd(events[Len(events)])
            /\ Answers(LastMessage, resp.tool_calls[idx])
            /\ events[Len(events)].tool_name = LastMessage.name
      /\ \A k \in 1..Len(EndEvents) :
            /\ ToolMessages[k].name = EndEvents[k].tool_name
            /\ StartEvents[k].tool_name = EndEvents[k].tool_name
            /\ EndEvents[k].type = "tool_call_error" <=> ToolMessages[k].content \in ErrorContents
            /\ Unresolved(EndEvents[k].tool_name) =>
                  /\ EndEvents[k].type = "tool_call_end"
                  /\ ToolMessages[k].content = ""

\* a finished streaming turn with an unknown tool and a tool that failed
C29_Witness ==
    /\ Streaming /\ pc = "done"
    /\ Len(StartEvents) = 2 /\ Len(EndEvents) = 2 /\ Len(ToolMessages) = 2
    /\ \E k \in 1..2 :
          /\ EndEvents[k].tool_name = "ghost" /\ EndEvents[k].type = "tool_call_end"
          /\ ToolMessages[k].content = ""
    /\ \E k \in 1..2 : EndEvents[k].type = "tool_call_error"

\* the consumer holds a tool_call_error: the error text is in the history
C29_ErrorHandedOver ==
    /\ Streaming /\ pc = "y_end"
    /\ events[Len(events)].type = "tool_call_error"
    /\ LastMessage.content = "Error: fail"

\* C30: the local tools of the agent are exactly the tools of the list given to
\* the constructor, also when that list is empty: the built-in tools are
\* installed only when no list is given, and with an empty list no name of a
\* built-in tool resolves.
C30_LocalToolsAsInjected ==
    /\ injected.tools.given => local_tools = injected.tools.list
    /\ ~injected.tools.given => local_tools = default_tools
    /\ (injected.tools.given /\ injected.tools.list = <<>> /\ injected.clients = <<>>) =>
          /\ \A name \in CalledNames : FindTool(local_tools, mcp_tools, name).target = "none"
          /\ call_log = <<>>

====
